---------------------------- MODULE Spec2Model ----------------------------
(***************************************************************************)
(* Model of the msgpack_lazer_api codec (encode.rs, decode.rs, lib.rs).    *)
(*                                                                         *)
(* Representation.  A byte is a number in 0..255 and a buffer a sequence   *)
(* of bytes.  Every fixed-width Rust integer (u32, i64, u64, ...) is its   *)
(* big-endian byte sequence, two's complement where signed, because the    *)
(* widths the codec works with (2^32, 2^34, 2^63) do not fit the checker's *)
(* integers; comparisons, shifts and masks are computed on those bytes.    *)
(* A Python int is a 9-byte two's complement number (it holds every i64    *)
(* and every u64), a Python float the 8 bytes of its IEEE-754 double, a    *)
(* Python str its UTF-8 bytes.  A Python object is a record tagged by      *)
(* `kind`.                                                                 *)
(***************************************************************************)
EXTENDS Integers, Sequences, FiniteSets, TLC

VARIABLES
    pc,         \* which call was made last
    obj,        \* the Python object handed to encode
    encoded,    \* what encode returned (bytes, or the panic that unwound)
    data,       \* the buffer handed to decode
    result,     \* what decode returned
    prevData,   \* the buffer of the decode call before the last one
    prevResult, \* and what that call returned
    args        \* the len and api_mod of a read_array call

vars == <<pc, obj, encoded, data, result, prevData, prevResult, args>>

(***************************************************************************)
(* Bytes, bits and fixed-width integers                                    *)
(***************************************************************************)
Byte == 0..255

Zeros(n) == [i \in 1..n |-> 0]

Ones(n) == [i \in 1..n |-> 255]

ByteBits(b) == [i \in 1..8 |-> (b \div (2^(8 - i))) % 2]

ToBits(bs) == [i \in 1..(8 * Len(bs)) |-> ByteBits(bs[((i - 1) \div 8) + 1])[((i - 1) % 8) + 1]]

RECURSIVE BitsToNat(_)
BitsToNat(bits) ==
    IF Len(bits) = 0 THEN 0
    ELSE 2 * BitsToNat(SubSeq(bits, 1, Len(bits) - 1)) + bits[Len(bits)]

NatToBits(n, w) == [i \in 1..w |-> (n \div (2^(w - i))) % 2]

FromBits(bits) == [i \in 1..(Len(bits) \div 8) |-> BitsToNat(SubSeq(bits, 8 * (i - 1) + 1, 8 * i))]

\* Big-endian bytes to a number; used only where the value is below 2^31.
RECURSIVE BytesToNat(_)
BytesToNat(bs) ==
    IF Len(bs) = 0 THEN 0
    ELSE 256 * BytesToNat(SubSeq(bs, 1, Len(bs) - 1)) + bs[Len(bs)]

\* n as w big-endian bytes (u8/u16/u32::to_be_bytes for n < 2^31).
NatToBytes(n, w) == [i \in 1..w |-> (n \div (256^(w - i))) % 256]

IsNeg(a) == a[1] >= 128

\* a < b for unsigned integers of the same width.
ULt(a, b) == \E i \in 1..Len(a) : a[i] < b[i] /\ \A j \in 1..(i - 1) : a[j] = b[j]

ULe(a, b) == a = b \/ ULt(a, b)

\* a < b for signed (two's complement) integers of the same width.
SLt(a, b) == IF IsNeg(a) # IsNeg(b) THEN IsNeg(a) ELSE ULt(a, b)

SLe(a, b) == a = b \/ SLt(a, b)

\* `x as iN/uN` to a wider type: sign or zero extension to w bytes.
SignExt(a, w) == (IF IsNeg(a) THEN Ones(w - Len(a)) ELSE Zeros(w - Len(a))) \o a

ZeroExt(a, w) == Zeros(w - Len(a)) \o a

\* `x as uN` to a narrower type: the low w bytes.
Low(a, w) == SubSeq(a, Len(a) - w + 1, Len(a))

BitAnd(a, b) == FromBits([i \in 1..(8 * Len(a)) |-> ToBits(a)[i] * ToBits(b)[i]])

BitOr(a, b) ==
    FromBits([i \in 1..(8 * Len(a)) |-> IF ToBits(a)[i] + ToBits(b)[i] > 0 THEN 1 ELSE 0])

\* a << n and a >> n on an unsigned integer: bits shifted out are lost.
Shl(a, n) == FromBits(SubSeq(ToBits(a), n + 1, 8 * Len(a)) \o Zeros(n))

Shr(a, n) == FromBits(Zeros(n) \o SubSeq(ToBits(a), 1, 8 * Len(a) - n))

(***************************************************************************)
(* Python objects                                                          *)
(***************************************************************************)
PyNone == [kind |-> "none"]

PyBool(b) == [kind |-> "bool", b |-> b]

\* v: 9-byte two's complement
PyInt(v) == [kind |-> "int", v |-> v]

\* bits: the 8 bytes of the double
PyFloat(bits) == [kind |-> "float", bits |-> bits]

\* bytes: the UTF-8 encoding of the text
PyStr(bytes) == [kind |-> "str", bytes |-> bytes]

PyBytes(bytes) == [kind |-> "bytes", bytes |-> bytes]

PyList(items) == [kind |-> "list", items |-> items]

\* pairs: <<key, value>> in insertion order, keys pairwise unequal
PyDict(pairs) == [kind |-> "dict", pairs |-> pairs]

\* A datetime.datetime: utc says whether it carries the UTC tzinfo; secs
\* (8-byte i64) and micros give the instant as an offset from the epoch.
PyDateTime(utc, secs, micros) == [kind |-> "datetime", utc |-> utc, secs |-> secs, micros |-> micros]

\* lib.rs APIMod: acronym is the String's bytes, settings the HashMap's
\* entries <<key bytes, value>> in the order its iterator yields them.
APIMod(acronym, settings) == [kind |-> "apimod", acronym |-> acronym, settings |-> settings]

\* An object of any other class (a tuple, a set, ...).
PyOther == [kind |-> "other"]


(***************************************************************************)
(* The rmp crate's writers, as encode.rs calls them.  Each appends to buf. *)
(***************************************************************************)
\* rmp::encode::write_nil: the nil marker 0xc0.
rmp_write_nil(buf) == buf \o <<192>>

\* rmp::encode::write_bool: 0xc3 for true, 0xc2 for false.
rmp_write_bool(buf, b) == buf \o <<IF b THEN 195 ELSE 194>>

\* rmp::encode::write_i32: always the marker 0xd2 and the 4 bytes of val;
\* the compact forms belong to write_sint, which encode.rs does not call.
rmp_write_i32(buf, val) == buf \o <<210>> \o val

\* rmp::encode::write_i64: always the marker 0xd3 and the 8 bytes of val.
rmp_write_i64(buf, val) == buf \o <<211>> \o val

\* rmp::encode::write_f32 / write_f64: marker 0xca / 0xcb and the IEEE bytes.
rmp_write_f32(buf, val) == buf \o <<202>> \o val

rmp_write_f64(buf, val) == buf \o <<203>> \o val

\* rmp::encode::write_str_len: fixstr, str8, str16 or str32 by length.
rmp_write_str_len(buf, len) ==
    IF len < 32 THEN buf \o <<160 + len>>
    ELSE IF len < 256 THEN buf \o <<217>> \o NatToBytes(len, 1)
    ELSE IF len <= 65535 THEN buf \o <<218>> \o NatToBytes(len, 2)
    ELSE buf \o <<219>> \o NatToBytes(len, 4)

rmp_write_str(buf, s) == rmp_write_str_len(buf, Len(s)) \o s

\* rmp::encode::write_bin: bin8, bin16 or bin32 by length, then the bytes.
rmp_write_bin(buf, bytes) ==
    (IF Len(bytes) < 256 THEN buf \o <<196>> \o NatToBytes(Len(bytes), 1)
     ELSE IF Len(bytes) <= 65535 THEN buf \o <<197>> \o NatToBytes(Len(bytes), 2)
     ELSE buf \o <<198>> \o NatToBytes(Len(bytes), 4)) \o bytes

\* rmp::encode::write_array_len: fixarray, array16 or array32.
rmp_write_array_len(buf, len) ==
    IF len < 16 THEN buf \o <<144 + len>>
    ELSE IF len <= 65535 THEN buf \o <<220>> \o NatToBytes(len, 2)
    ELSE buf \o <<221>> \o NatToBytes(len, 4)

\* rmp::encode::write_map_len: fixmap, map16 or map32.
rmp_write_map_len(buf, len) ==
    IF len < 16 THEN buf \o <<128 + len>>
    ELSE IF len <= 65535 THEN buf \o <<222>> \o NatToBytes(len, 2)
    ELSE buf \o <<223>> \o NatToBytes(len, 4)

\* rmp::encode::write_ext_meta: fixext1/2/4/8/16 for those lengths, else
\* ext8, ext16 or ext32 with the length; then the type tag ty as one byte.
rmp_write_ext_meta(buf, len, ty) ==
    (CASE len = 1 -> buf \o <<212>>
       [] len = 2 -> buf \o <<213>>
       [] len = 4 -> buf \o <<214>>
       [] len = 8 -> buf \o <<215>>
       [] len = 16 -> buf \o <<216>>
       [] OTHER -> IF len < 256 THEN buf \o <<199>> \o NatToBytes(len, 1)
                   ELSE IF len <= 65535 THEN buf \o <<200>> \o NatToBytes(len, 2)
                   ELSE buf \o <<201>> \o NatToBytes(len, 4)) \o <<ty % 256>>

(***************************************************************************)
(* pyo3 extraction of Rust values from Python objects                      *)
(***************************************************************************)
I32_MIN == <<255, 255, 255, 255, 255, 128, 0, 0, 0>>

I32_MAX == <<0, 0, 0, 0, 0, 127, 255, 255, 255>>

I64_MIN == <<255, 128, 0, 0, 0, 0, 0, 0, 0>>

I64_MAX == <<0, 127, 255, 255, 255, 255, 255, 255, 255>>

\* obj.downcast::<PyInt>(): PyLong_Check, which bool (a subclass of int)
\* passes.
IsPyInt(o) == o.kind \in {"int", "bool"}

\* The integer an int or a bool stands for (True is 1, False is 0).
IntValue(o) ==
    IF o.kind = "bool" THEN Zeros(8) \o <<IF o.b THEN 1 ELSE 0>> ELSE o.v

\* obj.extract::<i32>() and obj.extract::<i64>() succeed in the type's range.
FitsI32(o) == SLe(I32_MIN, IntValue(o)) /\ SLe(IntValue(o), I32_MAX)

FitsI64(o) == SLe(I64_MIN, IntValue(o)) /\ SLe(IntValue(o), I64_MAX)

\* `x as f32` of a double (what obj.extract::<f32>() returns for a float):
\* round to nearest, ties to even; overflow gives infinity, underflow a
\* subnormal or zero; a NaN stays a (quiet) NaN.
F64ToF32(d) ==
    LET bits == ToBits(d)
        s == bits[1]
        E == BitsToNat(SubSeq(bits, 2, 12))
        m == SubSeq(bits, 13, 64)
        e32 == E - 896
        k == IF e32 >= 1 THEN 0 ELSE 1 - e32
        \* the significand 1.m moved right by k places; sig[1] is the
        \* hidden bit of the result, sig[2..24] its mantissa field
        sig == IF k = 0 THEN <<1>> \o m
               ELSE IF k > 25 THEN Zeros(26)
               ELSE Zeros(k) \o <<1>> \o m
        field == BitsToNat(SubSeq(sig, 2, 24))
        round == sig[25]
        sticky == \E i \in 26..Len(sig) : sig[i] = 1
        sticky2 == sticky \/ (k > 25)
        c == (IF e32 >= 1 THEN e32 ELSE 0) * (2^23) + field
        up == round = 1 /\ (sticky2 \/ field % 2 = 1)
        c2 == IF up THEN c + 1 ELSE c
    IN  IF E = 2047
        THEN IF \A i \in 1..52 : m[i] = 0
             THEN FromBits(<<s>> \o NatToBits(255, 8) \o Zeros(23))
             ELSE FromBits(<<s>> \o NatToBits(255, 8) \o <<1>> \o SubSeq(m, 2, 23))
        ELSE IF E = 0 THEN FromBits(<<s>> \o Zeros(31))
        ELSE IF e32 >= 255 THEN FromBits(<<s>> \o NatToBits(255, 8) \o Zeros(23))
        ELSE FromBits(<<s>> \o NatToBits(c2, 31))

\* f64::from(f32): exact widening (what val.into_pyobject does to an f32).
F32ToF64(f) ==
    LET bits == ToBits(f)
        s == bits[1]
        e == BitsToNat(SubSeq(bits, 2, 9))
        m == SubSeq(bits, 10, 32)
        k == CHOOSE i \in 1..24 : (i = 24 \/ m[i] = 1) /\ \A j \in 1..(i - 1) : m[j] = 0
    IN  IF e = 255 THEN FromBits(<<s>> \o NatToBits(2047, 11) \o m \o Zeros(29))
        ELSE IF e = 0 /\ k = 24 THEN FromBits(<<s>> \o Zeros(63))
        ELSE IF e = 0
        THEN FromBits(<<s>> \o NatToBits(897 - k, 11) \o SubSeq(m, k + 1, 23) \o Zeros(29 + k))
        ELSE FromBits(<<s>> \o NatToBits(e + 896, 11) \o m \o Zeros(29))

(***************************************************************************)
(* encode.rs.  A writer returns [panic, msg, buf]: the buffer after the    *)
(* write, or the panic that unwinds out of it.                             *)
(***************************************************************************)
Wrote(buf) == [panic |-> FALSE, msg |-> "", buf |-> buf]

Panic(msg) == [panic |-> TRUE, msg |-> msg, buf |-> <<>>]

write_string(buf, o) == Wrote(rmp_write_str(buf, o.bytes))

\* write_integer with rmp's compact write_sint in place of write_i32: the
\* fixint range goes out as one byte.
write_integer_compact(buf, o) ==
    IF SLe(Ones(8) \o <<224>>, IntValue(o)) /\ SLe(IntValue(o), Zeros(8) \o <<127>>)
    THEN Wrote(Append(buf, IntValue(o)[9]))
    ELSE IF FitsI32(o) THEN Wrote(rmp_write_i32(buf, Low(IntValue(o), 4)))
    ELSE IF FitsI64(o) THEN Wrote(rmp_write_i64(buf, Low(IntValue(o), 8)))
    ELSE Panic("Unsupported integer type")

write_integer(buf, o) ==
    IF FitsI32(o) THEN Wrote(rmp_write_i32(buf, Low(IntValue(o), 4)))
    ELSE IF FitsI64(o) THEN Wrote(rmp_write_i64(buf, Low(IntValue(o), 8)))
    ELSE Panic("Unsupported integer type")

\* extract::<f32>() of a float always succeeds (the double cast to f32), so
\* the f64 branch and the panic are never taken.
write_float(buf, o) ==
    IF o.kind = "float" THEN Wrote(rmp_write_f32(buf, F64ToF32(o.bits)))
    ELSE Panic("Unsupported float type")

write_bool(buf, o) ==
    IF o.kind = "bool" THEN Wrote(rmp_write_bool(buf, o.b))
    ELSE Panic("Unsupported boolean type")

write_bin(buf, o) == Wrote(rmp_write_bin(buf, o.bytes))

write_nil(buf) == Wrote(rmp_write_nil(buf))

U32_MAX_I64 == <<0, 0, 0, 0, 255, 255, 255, 255>>

\* 1 << 34 and -(1 << 34) as i64, (1 << 34) - 1 as u64
TWO_34 == <<0, 0, 0, 4, 0, 0, 0, 0>>

NEG_TWO_34 == <<255, 255, 255, 252, 0, 0, 0, 0>>

MASK_34 == <<0, 0, 0, 3, 255, 255, 255, 255>>

\* secs: 8-byte i64, nsec: 4-byte u32
write_timestamp(wr, secs, nsec) ==
    LET buf ==
            IF nsec = Zeros(4) /\ SLe(Zeros(8), secs) /\ SLe(secs, U32_MAX_I64)
            THEN SubSeq(secs, 5, 8)
            ELSE IF SLe(NEG_TWO_34, secs) /\ SLt(secs, TWO_34)
            THEN BitOr(Shl(ZeroExt(nsec, 8), 34), BitAnd(secs, MASK_34))
            ELSE nsec \o secs
    IN  Wrote(rmp_write_ext_meta(wr, Len(buf), -1) \o buf)

\* extract::<DateTime<Utc>>() needs the UTC tzinfo; timestamp() is secs and
\* timestamp_subsec_nanos() the microseconds times 1000.
write_datetime(buf, o) ==
    IF o.utc THEN write_timestamp(buf, o.secs, NatToBytes(o.micros * 1000, 4))
    ELSE Panic("Unsupported datetime type. Check your input, timezone is needed.")

RECURSIVE write_object(_, _)
RECURSIVE write_list_loop(_, _, _)
RECURSIVE write_hashmap_loop(_, _, _)
RECURSIVE write_api_mod_loop(_, _, _)

\* for item in obj.iter() { write_object(buf, &item) }, from item i on
write_list_loop(buf, items, i) ==
    IF i > Len(items) THEN Wrote(buf)
    ELSE LET w == write_object(buf, items[i])
         IN  IF w.panic THEN w ELSE write_list_loop(w.buf, items, i + 1)

write_list(buf, o) ==
    write_list_loop(rmp_write_array_len(buf, Len(o.items)), o.items, 1)

\* for (key, value) in obj.iter() { write_object(key); write_object(value) }
write_hashmap_loop(buf, pairs, i) ==
    IF i > Len(pairs) THEN Wrote(buf)
    ELSE LET wk == write_object(buf, pairs[i][1])
         IN  IF wk.panic THEN wk
             ELSE LET wv == write_object(wk.buf, pairs[i][2])
                  IN  IF wv.panic THEN wv ELSE write_hashmap_loop(wv.buf, pairs, i + 1)

write_hashmap(buf, o) ==
    write_hashmap_loop(rmp_write_map_len(buf, Len(o.pairs)), o.pairs, 1)

\* for (k, v) in api_mod.settings.iter() { write_str(k); write_object(v) }
write_api_mod_loop(buf, settings, i) ==
    IF i > Len(settings) THEN Wrote(buf)
    ELSE LET w == write_object(rmp_write_str(buf, settings[i][1]), settings[i][2])
         IN  IF w.panic THEN w ELSE write_api_mod_loop(w.buf, settings, i + 1)

\* write_api_mod declaring settings.len() * 2 in the second array header
write_api_mod_doubled(buf, api_mod) ==
    write_api_mod_loop(
        rmp_write_array_len(
            rmp_write_str(rmp_write_array_len(buf, 2), api_mod.acronym),
            2 * Len(api_mod.settings)),
        api_mod.settings, 1)

write_api_mod(buf, api_mod) ==
    write_api_mod_loop(
        rmp_write_array_len(
            rmp_write_str(rmp_write_array_len(buf, 2), api_mod.acronym),
            Len(api_mod.settings)),
        api_mod.settings, 1)

write_object(buf, o) ==
    IF o.kind = "list" THEN write_list(buf, o)
    ELSE IF o.kind = "str" THEN write_string(buf, o)
    ELSE IF IsPyInt(o) THEN write_integer(buf, o)
    ELSE IF o.kind = "float" THEN write_float(buf, o)
    ELSE IF o.kind = "bool" THEN write_bool(buf, o)
    ELSE IF o.kind = "bytes" THEN write_bin(buf, o)
    ELSE IF o.kind = "dict" THEN write_hashmap(buf, o)
    ELSE IF o.kind = "none" THEN write_nil(buf)
    ELSE IF o.kind = "datetime" THEN write_datetime(buf, o)
    ELSE IF o.kind = "apimod" THEN write_api_mod(buf, o)
    ELSE Panic("Unsupported type")

\* lib.rs encode_py: Ok(buf) unless write_object panicked.
encode_py(o) == write_object(<<>>, o)

(***************************************************************************)
(* decode.rs.  The cursor is [pos, last]: pos bytes of the buffer are      *)
(* consumed; last records which kind of read consumed the most recent byte *)
(* ("marker" for read_marker, "exact" for read_exact, "none" before any).  *)
(* A reader returns [ok, val, exc, msg, via, cur]: Ok(val) with the cursor *)
(* after it, or Err of the Python exception class exc.  via names the      *)
(* return statement of read_array that produced an Ok value.               *)
(***************************************************************************)
Ok(val, cur) ==
    [ok |-> TRUE, val |-> val, exc |-> "", msg |-> "", via |-> "", cur |-> cur]

OkVia(val, via, cur) ==
    [ok |-> TRUE, val |-> val, exc |-> "", msg |-> "", via |-> via, cur |-> cur]

Err(exc, msg, cur) ==
    [ok |-> FALSE, val |-> PyNone, exc |-> exc, msg |-> msg, via |-> "", cur |-> cur]

\* std::io::Cursor::new(data)
NewCursor == [pos |-> 0, last |-> "none"]

\* cursor.read_exact(&mut buf) for a buf of n bytes: the next n bytes, or
\* an io::Error when fewer are left.
read_exact(d, cursor, n) ==
    IF Len(d) - cursor.pos >= n
    THEN [ok |-> TRUE, bytes |-> SubSeq(d, cursor.pos + 1, cursor.pos + n),
          cur |-> [pos |-> cursor.pos + n, last |-> IF n > 0 THEN "exact" ELSE cursor.last]]
    ELSE [ok |-> FALSE, bytes |-> <<>>, cur |-> cursor]

\* rmp::Marker::from_u8
Marker(b) ==
    IF b <= 127 THEN [name |-> "FixPos", val |-> b]
    ELSE IF b <= 143 THEN [name |-> "FixMap", val |-> b - 128]
    ELSE IF b <= 159 THEN [name |-> "FixArray", val |-> b - 144]
    ELSE IF b <= 191 THEN [name |-> "FixStr", val |-> b - 160]
    ELSE IF b >= 224 THEN [name |-> "FixNeg", val |-> b]
    ELSE [name |-> <<"Null", "Reserved", "False", "True", "Bin8", "Bin16", "Bin32",
                     "Ext8", "Ext16", "Ext32", "F32", "F64", "U8", "U16", "U32",
                     "U64", "I8", "I16", "I32", "I64", "FixExt1", "FixExt2",
                     "FixExt4", "FixExt8", "FixExt16", "Str8", "Str16", "Str32",
                     "Array16", "Array32", "Map16", "Map32">>[b - 191],
          val |-> 0]

\* rmp::decode::read_marker: one byte, or an error at the end of the buffer.
rmp_read_marker(d, cursor) ==
    IF cursor.pos < Len(d)
    THEN [ok |-> TRUE, marker |-> Marker(d[cursor.pos + 1]),
          cur |-> [pos |-> cursor.pos + 1, last |-> "marker"]]
    ELSE [ok |-> FALSE, marker |-> Marker(193), cur |-> cursor]

\* to_py_err raising ValueError, as the marker read does
to_py_err_value(cursor) == Err("PyValueError", "IO error", cursor)

to_py_err(cursor) == Err("PyIOError", "IO error", cursor)

\* String::from_utf8 accepts exactly the well-formed UTF-8 sequences.
Cont(b) == 128 <= b /\ b <= 191

RECURSIVE Utf8Valid(_, _)
Utf8Valid(bs, i) ==
    IF i > Len(bs) THEN TRUE
    ELSE LET b == bs[i]
             n == Len(bs)
         IN  IF b <= 127 THEN Utf8Valid(bs, i + 1)
             ELSE IF 194 <= b /\ b <= 223
             THEN i + 1 <= n /\ Cont(bs[i + 1]) /\ Utf8Valid(bs, i + 2)
             ELSE IF 224 <= b /\ b <= 239
             THEN /\ i + 2 <= n
                  /\ Cont(bs[i + 1]) /\ Cont(bs[i + 2])
                  /\ (b = 224 => bs[i + 1] >= 160)
                  /\ (b = 237 => bs[i + 1] <= 159)
                  /\ Utf8Valid(bs, i + 3)
             ELSE IF 240 <= b /\ b <= 244
             THEN /\ i + 3 <= n
                  /\ Cont(bs[i + 1]) /\ Cont(bs[i + 2]) /\ Cont(bs[i + 3])
                  /\ (b = 240 => bs[i + 1] >= 144)
                  /\ (b = 244 => bs[i + 1] <= 143)
                  /\ Utf8Valid(bs, i + 4)
             ELSE FALSE

read_string(d, cursor, len) ==
    LET r == read_exact(d, cursor, len)
    IN  IF ~r.ok THEN to_py_err(cursor)
        ELSE IF ~Utf8Valid(r.bytes, 1) THEN Err("PyUnicodeDecodeError", "Invalid UTF-8", r.cur)
        ELSE Ok(PyStr(r.bytes), r.cur)

\* The payload widths of the fixed-width markers, and the widths of the
\* length prefixes.
Width(name) ==
    CASE name \in {"U8", "I8", "Bin8", "Str8", "Ext8"} -> 1
      [] name \in {"U16", "I16", "Bin16", "Str16", "Array16", "Map16", "Ext16"} -> 2
      [] name \in {"U32", "I32", "F32", "Bin32", "Str32", "Array32", "Map32", "Ext32"} -> 4
      [] name \in {"U64", "I64", "F64"} -> 8

\* The fixed payload lengths of fixext1/2/4/8/16.
FixExtLen(name) ==
    CASE name = "FixExt1" -> 1 [] name = "FixExt2" -> 2 [] name = "FixExt4" -> 4
      [] name = "FixExt8" -> 8 [] name = "FixExt16" -> 16

(***************************************************************************)
(* Python dict insertion (PyDict::set_item)                                *)
(***************************************************************************)
\* Lists and dicts are unhashable: set_item raises TypeError for them.
Hashable(k) == k.kind \notin {"list", "dict"}

IsNaN(bits) ==
    /\ BitsToNat(SubSeq(ToBits(bits), 2, 12)) = 2047
    /\ \E i \in 13..64 : ToBits(bits)[i] = 1

IsZeroFloat(bits) == \A i \in 2..64 : ToBits(bits)[i] = 0

\* Python's == on keys: ints and bools compare by value (True == 1), floats
\* by value (0.0 == -0.0, a NaN equals nothing), the rest by content.  A
\* float is never compared with an int here: no explored input has both as
\* keys of one dict.
PyKeyEq(a, b) ==
    IF IsPyInt(a) /\ IsPyInt(b) THEN IntValue(a) = IntValue(b)
    ELSE IF a.kind = "float" /\ b.kind = "float"
    THEN (a.bits = b.bits /\ ~IsNaN(a.bits)) \/ (IsZeroFloat(a.bits) /\ IsZeroFloat(b.bits))
    ELSE a = b

\* dict[k] = v: an equal key keeps its place and its first key object.
dict_set_item(pairs, k, v) ==
    IF \E i \in 1..Len(pairs) : PyKeyEq(pairs[i][1], k)
    THEN [i \in 1..Len(pairs) |-> IF PyKeyEq(pairs[i][1], k) THEN <<pairs[i][1], v>> ELSE pairs[i]]
    ELSE Append(pairs, <<k, v>>)

(***************************************************************************)
(* Timestamps (chrono and the conversion to datetime.datetime)             *)
(***************************************************************************)
\* 1_000_000_000 and 2_000_000_000 as u32
NS_1E9 == <<59, 154, 202, 0>>

NS_2E9 == <<119, 53, 148, 0>>

\* The seconds of the first and the last instant chrono's DateTime<Utc>
\* holds (years -262143 to 262142), as i64.
CHRONO_MIN_SECS == <<255, 255, 248, 107, 115, 12, 156, 128>>

CHRONO_MAX_SECS == <<0, 0, 7, 119, 154, 10, 107, 127>>

\* The seconds of 0001-01-01T00:00:00 and 9999-12-31T23:59:59, the range of
\* datetime.datetime, as i64.
PY_MIN_SECS == <<255, 255, 255, 241, 136, 110, 9, 0>>

PY_MAX_SECS == <<0, 0, 0, 58, 255, 244, 65, 127>>

RECURSIVE ModBytes(_, _)
ModBytes(bs, m) ==
    IF Len(bs) = 0 THEN 0
    ELSE (256 * ModBytes(SubSeq(bs, 1, Len(bs) - 1), m) + bs[Len(bs)]) % m

\* secs.rem_euclid(60) of an i64 (2^64 mod 60 = 16).
SecOfMinute(secs) ==
    IF IsNeg(secs) THEN (ModBytes(secs, 60) + 44) % 60 ELSE ModBytes(secs, 60)

\* Utc.timestamp_opt(secs, nsec).single() is Some: the date is in chrono's
\* range, and nsec is below 10^9, or below 2 * 10^9 in the last second of a
\* minute (a leap second).
ChronoSome(secs, nsec) ==
    /\ SLe(CHRONO_MIN_SECS, secs) /\ SLe(secs, CHRONO_MAX_SECS)
    /\ \/ ULt(nsec, NS_1E9)
       \/ ULt(nsec, NS_2E9) /\ SecOfMinute(secs) = 59

\* secs: 8 bytes (the u64 reinterpreted as i64), nsec: 4-byte u32
read_timestamp(payload, cursor) ==
    IF Len(payload) \notin {4, 8, 12}
    THEN Err("PyValueError", "Invalid timestamp data length", cursor)
    ELSE LET secs == CASE Len(payload) = 4 -> ZeroExt(payload, 8)
                       [] Len(payload) = 8 -> BitAnd(payload, MASK_34)
                       [] Len(payload) = 12 -> SubSeq(payload, 5, 12)
             nsec == CASE Len(payload) = 4 -> Zeros(4)
                       [] Len(payload) = 8 -> Low(Shr(payload, 34), 4)
                       [] Len(payload) = 12 -> SubSeq(payload, 1, 4)
             ns == BytesToNat(nsec)
         IN  \* Option::None converts to Python's None
             IF ~ChronoSome(secs, nsec) THEN Ok(PyNone, cursor)
             \* datetime.datetime refuses years outside 1..9999
             ELSE IF ~(SLe(PY_MIN_SECS, secs) /\ SLe(secs, PY_MAX_SECS))
             THEN Err("PyValueError", "year is out of range", cursor)
             \* microsecond precision; a leap second is truncated
             ELSE Ok(PyDateTime(TRUE, secs, (ns % 1000000000) \div 1000), cursor)

read_ext(d, cursor, len) ==
    LET t == read_exact(d, cursor, 1)
        p == read_exact(d, t.cur, len)
    IN  IF ~t.ok THEN to_py_err(cursor)
        ELSE IF ~p.ok THEN to_py_err(t.cur)
        ELSE IF t.bytes[1] = 255 THEN read_timestamp(p.bytes, p.cur)
        ELSE Err("PyValueError", "Unsupported extension type", p.cur)

(***************************************************************************)
(* read_object, read_array, read_map                                       *)
(***************************************************************************)
\* "acronym" and "settings"
KEY_ACRONYM == PyStr(<<97, 99, 114, 111, 110, 121, 109>>)

KEY_SETTINGS == PyStr(<<115, 101, 116, 116, 105, 110, 103, 115>>)

RECURSIVE read_object(_, _, _)
RECURSIVE read_array_loop(_, _, _, _, _, _, _)
RECURSIVE read_map_loop(_, _, _, _)
RECURSIVE read_map_build(_, _, _, _)

\* while i < array_len { ... }, then the return of line 232 or 234
read_array_loop(d, cursor, i, array_len, api_mod, items, dict) ==
    IF i >= array_len
    THEN IF api_mod THEN OkVia(PyDict(dict), "pairs", cursor)
         ELSE OkVia(PyList(items), "items", cursor)
    ELSE IF api_mod /\ i % 2 = 0
    THEN LET key == read_object(d, cursor, FALSE)
         IN  IF ~key.ok THEN key
             ELSE LET value == read_object(d, key.cur, FALSE)
                  IN  IF ~value.ok THEN value
                      ELSE IF ~Hashable(key.val)
                      THEN Err("PyTypeError", "unhashable type", value.cur)
                      ELSE read_array_loop(d, value.cur, i + 2, array_len, api_mod, items,
                                           dict_set_item(dict, key.val, value.val))
    ELSE LET item == read_object(d, cursor, api_mod)
         IN  IF ~item.ok THEN item
             ELSE read_array_loop(d, item.cur, i + 1, array_len, api_mod,
                                  Append(items, item.val), dict)

\* read_array without the k.len() == 2 test: any string first element makes
\* a mod descriptor
read_array_any_string(d, cursor, len, api_mod) ==
    LET array_len == IF api_mod THEN len * 2 ELSE len
    IN  IF len = 2 /\ ~api_mod
        THEN LET obj1 == read_object(d, cursor, FALSE)
             IN  IF ~obj1.ok THEN obj1
                 ELSE IF obj1.val.kind = "str"
                 THEN LET obj2 == read_object(d, obj1.cur, TRUE)
                      IN  IF ~obj2.ok THEN obj2
                          ELSE OkVia(PyDict(<< <<KEY_ACRONYM, obj1.val>>,
                                               <<KEY_SETTINGS, obj2.val>> >>),
                                     "mod", obj2.cur)
                 ELSE read_array_loop(d, obj1.cur, 1, array_len, api_mod, <<obj1.val>>, <<>>)
        ELSE read_array_loop(d, cursor, 0, array_len, api_mod, <<>>, <<>>)

read_array(d, cursor, len, api_mod) ==
    LET array_len == IF api_mod THEN len * 2 ELSE len
    IN  IF len = 2 /\ ~api_mod
        THEN LET obj1 == read_object(d, cursor, FALSE)
             IN  IF ~obj1.ok THEN obj1
                 ELSE IF obj1.val.kind = "str" /\ Len(obj1.val.bytes) = 2
                 THEN LET obj2 == read_object(d, obj1.cur, TRUE)
                      IN  IF ~obj2.ok THEN obj2
                          ELSE OkVia(PyDict(<< <<KEY_ACRONYM, obj1.val>>,
                                               <<KEY_SETTINGS, obj2.val>> >>),
                                     "mod", obj2.cur)
                 ELSE read_array_loop(d, obj1.cur, 1, array_len, api_mod, <<obj1.val>>, <<>>)
        ELSE read_array_loop(d, cursor, 0, array_len, api_mod, <<>>, <<>>)

\* for (key, value) in pairs { dict.set_item(key, value)? }
read_map_build(pairs, i, dict, cursor) ==
    IF i > Len(pairs) THEN Ok(PyDict(dict), cursor)
    ELSE IF ~Hashable(pairs[i][1]) THEN Err("PyTypeError", "unhashable type", cursor)
    ELSE read_map_build(pairs, i + 1, dict_set_item(dict, pairs[i][1], pairs[i][2]), cursor)

\* for _ in 0..len { pairs.push((read_object()?, read_object()?)) }
read_map_loop(d, cursor, n, pairs) ==
    IF n = 0 THEN read_map_build(pairs, 1, <<>>, cursor)
    ELSE LET key == read_object(d, cursor, FALSE)
         IN  IF ~key.ok THEN key
             ELSE LET value == read_object(d, key.cur, FALSE)
                  IN  IF ~value.ok THEN value
                      ELSE read_map_loop(d, value.cur, n - 1,
                                         Append(pairs, <<key.val, value.val>>))

read_map(d, cursor, len) == read_map_loop(d, cursor, len, <<>>)

read_object(d, cursor, api_mod) ==
    LET rm == rmp_read_marker(d, cursor)
        marker == rm.marker.name
        c == rm.cur
        \* the fixed-width payload, or the length prefix, after the marker
        fx == read_exact(d, c, Width(marker))
    IN  IF ~rm.ok THEN Err("PyValueError", "Failed to read marker", cursor)
        ELSE CASE marker = "Null" -> Ok(PyNone, c)
          [] marker = "True" -> Ok(PyBool(TRUE), c)
          [] marker = "False" -> Ok(PyBool(FALSE), c)
          [] marker = "FixPos" -> Ok(PyInt(ZeroExt(<<rm.marker.val>>, 9)), c)
          [] marker = "FixNeg" -> Ok(PyInt(SignExt(<<rm.marker.val>>, 9)), c)
          [] marker \in {"U8", "U16", "U32", "U64"} ->
                IF ~fx.ok THEN to_py_err(c) ELSE Ok(PyInt(ZeroExt(fx.bytes, 9)), fx.cur)
          [] marker \in {"I8", "I16", "I32", "I64"} ->
                IF ~fx.ok THEN to_py_err(c) ELSE Ok(PyInt(SignExt(fx.bytes, 9)), fx.cur)
          [] marker \in {"Bin8", "Bin16", "Bin32"} ->
                IF ~fx.ok THEN to_py_err(c)
                ELSE LET bin == read_exact(d, fx.cur, BytesToNat(fx.bytes))
                     IN  IF ~bin.ok THEN to_py_err(fx.cur) ELSE Ok(PyBytes(bin.bytes), bin.cur)
          [] marker = "FixStr" -> read_string(d, c, rm.marker.val)
          [] marker \in {"Str8", "Str16", "Str32"} ->
                IF ~fx.ok THEN to_py_err(c) ELSE read_string(d, fx.cur, BytesToNat(fx.bytes))
          [] marker = "FixArray" -> read_array(d, c, rm.marker.val, api_mod)
          [] marker \in {"Array16", "Array32"} ->
                IF ~fx.ok THEN to_py_err(c)
                ELSE read_array(d, fx.cur, BytesToNat(fx.bytes), api_mod)
          [] marker = "FixMap" -> read_map(d, c, rm.marker.val)
          [] marker \in {"Map16", "Map32"} ->
                IF ~fx.ok THEN to_py_err(c) ELSE read_map(d, fx.cur, BytesToNat(fx.bytes))
          [] marker = "F32" ->
                IF ~fx.ok THEN to_py_err(c) ELSE Ok(PyFloat(F32ToF64(fx.bytes)), fx.cur)
          [] marker = "F64" ->
                IF ~fx.ok THEN to_py_err(c) ELSE Ok(PyFloat(fx.bytes), fx.cur)
          [] marker \in {"FixExt1", "FixExt2", "FixExt4", "FixExt8", "FixExt16"} ->
                read_ext(d, c, FixExtLen(marker))
          [] marker \in {"Ext8", "Ext16", "Ext32"} ->
                IF ~fx.ok THEN to_py_err(c) ELSE read_ext(d, fx.cur, BytesToNat(fx.bytes))
          [] OTHER -> Err("PyValueError", "Unsupported MessagePack marker", c)

\* decode_py rejecting a buffer that holds more than one value
decode_py_strict(d) ==
    LET r == read_object(d, NewCursor, FALSE)
    IN  IF r.ok /\ r.cur.pos < Len(d)
        THEN Err("PyValueError", "Trailing bytes", r.cur)
        ELSE r

\* lib.rs decode_py
decode_py(d) == read_object(d, NewCursor, FALSE)

(***************************************************************************)
(* Inputs.  Objects handed to encode and buffers handed to decode are      *)
(* drawn from the bounded sets below.                                      *)
(***************************************************************************)
\* how deep containers nest
MaxDepth == 3

\* how many items a flat list has
MaxItems == 2

\* how many settings an APIMod has
MaxSettings == 2

\* how many wire elements follow an array header in a decode buffer
MaxElems == 4

\* how many bytes are appended after a decoded value
MaxTrailing == 1

\* every sequence of at most n members of S
SeqsUpTo(S, n) == UNION {[1..k -> S] : k \in 0..n}

\* a small integer as a Python int
SmallInt(n) == PyInt(IF n >= 0 THEN Zeros(8) \o <<n>> ELSE Ones(8) \o <<256 + n>>)

\* 0, 42, 127, 128, -1, -32, -33, the i32 and i64 limits and their
\* neighbours 2^31, -2^31 - 1, and 2^63 (beyond i64)
IntObjects ==
    {SmallInt(0), SmallInt(42), SmallInt(127), SmallInt(128), SmallInt(-1), SmallInt(-32),
     SmallInt(-33), PyInt(I32_MAX), PyInt(I32_MIN), PyInt(I64_MAX), PyInt(I64_MIN),
     PyInt(<<0, 0, 0, 0, 0, 128, 0, 0, 0>>),
     PyInt(<<255, 255, 255, 255, 255, 127, 255, 255, 255>>),
     PyInt(<<0, 128, 0, 0, 0, 0, 0, 0, 0>>)}

\* the doubles 1.5, 0.1, 0.0 and -0.0
FLOAT_1_5 == PyFloat(<<63, 248, 0, 0, 0, 0, 0, 0>>)

FloatObjects ==
    {FLOAT_1_5, PyFloat(<<63, 185, 153, 153, 153, 153, 153, 154>>), PyFloat(Zeros(8)),
     PyFloat(<<128, 0, 0, 0, 0, 0, 0, 0>>)}

\* "", "a", "ab", "HD", "abc", and a 32-byte string (the first str8)
STR_AB == PyStr(<<97, 98>>)

STR_HD == <<72, 68>>

StrObjects ==
    {PyStr(<<>>), PyStr(<<97>>), STR_AB, PyStr(STR_HD), PyStr(<<97, 98, 99>>),
     PyStr([i \in 1..32 |-> 97])}

BytesObjects == {PyBytes(<<>>), PyBytes(<<1, 2>>)}

\* seconds 0, 1, 2^32 - 1, 2^32, 2^34 - 1, 2^34, -1, -2^34, -2^34 - 1 and
\* the first and last second of datetime's range
DateSecs ==
    {Zeros(8), <<0, 0, 0, 0, 0, 0, 0, 1>>, U32_MAX_I64, <<0, 0, 0, 1, 0, 0, 0, 0>>,
     MASK_34, TWO_34, Ones(8), NEG_TWO_34, <<255, 255, 255, 251, 255, 255, 255, 255>>,
     PY_MIN_SECS, PY_MAX_SECS}

DateObjects ==
    {PyDateTime(TRUE, secs, us) : secs \in DateSecs, us \in {0, 1, 999999}}
        \cup {PyDateTime(FALSE, Zeros(8), 0)}

Leaves ==
    {PyNone, PyBool(TRUE), PyBool(FALSE), PyOther}
        \cup IntObjects \cup FloatObjects \cup StrObjects \cup BytesObjects \cup DateObjects

\* what containers are built from
Core == {PyNone, PyBool(TRUE), SmallInt(42), STR_AB, PyStr(<<97>>), PyOther}

FlatLists == {PyList(items) : items \in SeqsUpTo(Core \ {PyOther, PyBool(TRUE)}, MaxItems)}

RECURSIVE Nested(_)
Nested(depth) ==
    IF depth = 0 THEN Core \cup {PyList(<<>>), PyDict(<<>>)}
    ELSE Nested(depth - 1)
            \cup {PyList(<<v>>) : v \in Nested(depth - 1)}
            \cup {PyList(<<SmallInt(0), v>>) : v \in Nested(depth - 1)}
            \cup {PyDict(<< <<PyStr(<<97>>), v>> >>) : v \in Nested(depth - 1)}

SettingKeys == {<<97>>, <<98, 99>>, <<100>>}

SettingValues ==
    {PyNone, PyBool(TRUE), SmallInt(42), FLOAT_1_5, PyStr(<<120>>), PyList(<<SmallInt(1)>>),
     PyOther, APIMod(<<68, 84>>, <<>>)}

\* the orders a HashMap of at most MaxSettings entries can iterate in
SettingsMaps ==
    {m \in SeqsUpTo(SettingKeys \X SettingValues, MaxSettings) :
        \A i, j \in 1..Len(m) : i # j => m[i][1] # m[j][1]}

APIMods == {APIMod(a, m) : a \in {STR_HD, <<72>>}, m \in SettingsMaps}

Objects == Leaves \cup FlatLists \cup Nested(MaxDepth) \cup APIMods

\* An extension of type -1 (a timestamp) around a payload.
TsBuf(payload) == rmp_write_ext_meta(<<>>, Len(payload), -1) \o payload

\* 12-byte payloads no instant corresponds to: nanoseconds 2 * 10^9 at
\* second 0, and second i64::MAX
TS_NSEC_2E9 == NS_2E9 \o Zeros(8)

TS_SECS_MAX == Zeros(4) \o <<127, 255, 255, 255, 255, 255, 255, 255>>

\* timestamp payloads: 4 bytes (1 and 2^32 - 1 seconds), 8 bytes (second 1
\* with 0 and with 2^30 - 1 nanoseconds, second 59 with 2^30 - 1), 12 bytes
\* (second -1 nanosecond 1000, the year 10000, and the two above)
TsPayloads ==
    {<<0, 0, 0, 1>>, Ones(4),
     <<0, 0, 0, 0, 0, 0, 0, 1>>, <<255, 255, 255, 252, 0, 0, 0, 1>>,
     <<255, 255, 255, 252, 0, 0, 0, 59>>,
     <<0, 0, 3, 232>> \o Ones(8), Zeros(4) \o <<0, 0, 0, 58, 255, 244, 65, 128>>,
     TS_NSEC_2E9, TS_SECS_MAX}

\* One complete encoding (or more) of every marker: nil, true, false, fixint;
\* uint8..64; int8..64; float32/64; fixstr, str8/16/32; bin8/16/32;
\* fixarray, array16/32; fixmap, map16/32; fixext1..16, ext8/16/32; and the
\* reserved marker and a string that is not UTF-8.
ScalarBufs ==
    {<<192>>, <<195>>, <<194>>, <<42>>, <<255>>,
     <<204, 128>>, <<205, 1, 0>>, <<206, 0, 1, 0, 0>>, <<207>> \o Ones(8),
     <<208, 128>>, <<209, 255, 0>>, <<210, 255, 255, 255, 214>>, <<211, 128>> \o Zeros(7),
     <<202, 63, 192, 0, 0>>, <<203, 63, 248, 0, 0, 0, 0, 0, 0>>,
     <<160>>, <<162, 97, 98>>, <<217, 0>>, <<217, 1, 97>>, <<218, 0, 1, 97>>,
     <<219, 0, 0, 0, 1, 97>>,
     <<196, 0>>, <<196, 1, 7>>, <<197, 0, 1, 7>>, <<198, 0, 0, 0, 1, 7>>,
     <<144>>, <<145, 192>>, <<220, 0, 1, 192>>, <<221, 0, 0, 0, 1, 192>>,
     <<220, 0, 2, 162, 97, 98, 144>>,
     <<128>>, <<129, 161, 97, 1>>, <<222, 0, 1, 161, 97, 1>>, <<223, 0, 0, 0, 1, 161, 97, 1>>,
     <<129, 144, 1>>,
     <<212, 255, 0>>, <<213, 255, 0, 0>>, <<216, 255>> \o Zeros(16), <<212, 1, 0>>,
     <<200, 0, 4, 255, 0, 0, 0, 1>>, <<201, 0, 0, 0, 4, 255, 0, 0, 0, 1>>,
     <<193>>, <<161, 255>>}
        \cup {TsBuf(p) : p \in TsPayloads}

\* The wire elements array buffers are made of: the int 1, "ab", "a", and
\* the headers of a 1- and a 2-element array (whose elements then follow).
Atoms == {<<1>>, <<162, 97, 98>>, <<161, 97>>, <<145>>, <<146>>}

RECURSIVE Concat(_)
Concat(seqs) == IF Len(seqs) = 0 THEN <<>> ELSE Head(seqs) \o Concat(Tail(seqs))

Bodies == {Concat(as) : as \in SeqsUpTo(Atoms, MaxElems)}

\* the declared lengths of the array headers
ArrayLens == 0..3

ArrayBufs == {rmp_write_array_len(<<>>, n) \o b : n \in ArrayLens, b \in Bodies}

\* a scalar as the only element of an array, and as the value of a map entry
WrappedBufs ==
    {<<145>> \o b : b \in ScalarBufs} \cup {<<129, 161, 97>> \o b : b \in ScalarBufs}

Buffers == ScalarBufs \cup ArrayBufs \cup WrappedBufs

TrailBytes == {1, 146}

Trailing == SeqsUpTo(TrailBytes, MaxTrailing) \ {<<>>}

(***************************************************************************)
(* The state machine: one call of encode or decode from the idle state,    *)
(* then decode of what encode returned, and decode again of the same       *)
(* buffer cut short by a byte or followed by more bytes.                   *)
(***************************************************************************)
NoResult == Err("", "", NewCursor)

Init ==
    /\ pc = "idle"
    /\ obj = PyNone
    /\ encoded = Wrote(<<>>)
    /\ data = <<>>
    /\ result = NoResult
    /\ prevData = <<>>
    /\ prevResult = NoResult
    /\ args = [len |-> 0, api_mod |-> FALSE]

\* encode(o)
Encode ==
    /\ pc = "idle"
    /\ \E o \in Objects :
        /\ obj' = o
        /\ encoded' = encode_py(o)
    /\ pc' = "encoded"
    /\ UNCHANGED <<data, result, prevData, prevResult, args>>

\* decode(encode(o))
DecodeEncoded ==
    /\ pc = "encoded"
    /\ ~encoded.panic
    /\ pc' = "roundtrip"
    /\ data' = encoded.buf
    /\ result' = decode_py(encoded.buf)
    /\ UNCHANGED <<obj, encoded, prevData, prevResult, args>>

\* decode(d)
Decode ==
    /\ pc = "idle"
    /\ \E d \in Buffers :
        /\ data' = d
        /\ result' = decode_py(d)
    /\ pc' = "decoded"
    /\ UNCHANGED <<obj, encoded, prevData, prevResult, args>>

\* decode of the last buffer without its last byte
DecodeTruncated ==
    /\ pc \in {"decoded", "roundtrip"}
    /\ Len(data) > 0
    /\ pc' = "truncated"
    /\ prevData' = data
    /\ prevResult' = result
    /\ data' = SubSeq(data, 1, Len(data) - 1)
    /\ result' = decode_py(SubSeq(data, 1, Len(data) - 1))
    /\ UNCHANGED <<obj, encoded, args>>

\* decode of the last buffer followed by more bytes
DecodeExtended ==
    /\ pc \in {"decoded", "roundtrip"}
    /\ \E t \in Trailing :
        /\ data' = data \o t
        /\ result' = decode_py(data \o t)
    /\ pc' = "extended"
    /\ prevData' = data
    /\ prevResult' = result
    /\ UNCHANGED <<obj, encoded, args>>

\* read_array at the elements of an array of declared length len, as
\* read_object calls it after the array's header
ReadArray ==
    /\ pc = "idle"
    /\ \E b \in Bodies, len \in ArrayLens, api_mod \in BOOLEAN :
        /\ data' = b
        /\ args' = [len |-> len, api_mod |-> api_mod]
        /\ result' = read_array(b, NewCursor, len, api_mod)
    /\ pc' = "array"
    /\ UNCHANGED <<obj, encoded, prevData, prevResult>>

Next ==
    \/ Encode
    \/ DecodeEncoded
    \/ Decode
    \/ DecodeTruncated
    \/ DecodeExtended
    \/ ReadArray

Spec == Init /\ [][Next]_vars

(***************************************************************************)
(* Properties                                                              *)
(***************************************************************************)
\* The dict read_array returns for a mod descriptor.
IsModDescriptor(v) ==
    /\ v.kind = "dict"
    /\ Len(v.pairs) = 2
    /\ v.pairs[1][1] = KEY_ACRONYM
    /\ v.pairs[2][1] = KEY_SETTINGS

\* b is the decoded form of the object a: equal to it, where an APIMod
\* corresponds to a mod descriptor with its acronym and its settings.
RECURSIVE SameValue(_, _)
SameValue(a, b) ==
    IF a.kind = "apimod"
    THEN /\ IsModDescriptor(b)
         /\ b.pairs[1][2] = PyStr(a.acronym)
         /\ b.pairs[2][2].kind = "dict"
         /\ Len(b.pairs[2][2].pairs) = Len(a.settings)
         /\ \A i \in 1..Len(a.settings) : \E j \in 1..Len(a.settings) :
                /\ b.pairs[2][2].pairs[j][1] = PyStr(a.settings[i][1])
                /\ SameValue(a.settings[i][2], b.pairs[2][2].pairs[j][2])
    ELSE IF a.kind = "list"
    THEN /\ b.kind = "list"
         /\ Len(b.items) = Len(a.items)
         /\ \A i \in 1..Len(a.items) : SameValue(a.items[i], b.items[i])
    ELSE a = b

\* The kinds encode.rs has a writer for.
RECURSIVE Supported(_)
Supported(v) ==
    CASE v.kind \in {"none", "bool", "float", "str", "bytes"} -> TRUE
      [] v.kind = "int" -> FitsI64(v)
      [] v.kind = "datetime" -> v.utc
      [] v.kind = "list" -> \A i \in 1..Len(v.items) : Supported(v.items[i])
      [] v.kind = "dict" ->
            \A i \in 1..Len(v.pairs) : Supported(v.pairs[i][1]) /\ Supported(v.pairs[i][2])
      [] v.kind = "apimod" -> \A i \in 1..Len(v.settings) : Supported(v.settings[i][2])
      [] OTHER -> FALSE

\* C1: a ModDescriptor with a 2-byte acronym and supported settings values
\* encodes, and decoding the bytes succeeds, consumes the whole buffer and
\* yields a mod descriptor with the same acronym and the same settings.
C1_ModDescriptorRoundTrip ==
    (pc \in {"encoded", "roundtrip"} /\ obj.kind = "apimod" /\ Len(obj.acronym) = 2
        /\ Supported(obj))
    => /\ ~encoded.panic
       /\ pc = "roundtrip" =>
            /\ result.ok
            /\ result.cur.pos = Len(data)
            /\ SameValue(obj, result.val)

\* C2: a timestamp is written in the 4-byte form when nanoseconds = 0 and
\* 0 <= seconds <= 2^32 - 1, else in the 8-byte form when
\* -2^34 <= seconds < 2^34, else in the 12-byte form, and decoding the bytes
\* yields the same seconds and nanoseconds.
C2_TimestampRoundTrip ==
    (pc \in {"encoded", "roundtrip"} /\ obj.kind = "datetime" /\ obj.utc)
    => /\ ~encoded.panic
       /\ IF obj.micros = 0 /\ SLe(Zeros(8), obj.secs) /\ SLe(obj.secs, U32_MAX_I64)
          THEN Len(encoded.buf) = 6 /\ encoded.buf[1] = 214
          ELSE IF SLe(NEG_TWO_34, obj.secs) /\ SLt(obj.secs, TWO_34)
          THEN Len(encoded.buf) = 10 /\ encoded.buf[1] = 215
          ELSE Len(encoded.buf) = 15 /\ encoded.buf[1] = 199 /\ encoded.buf[2] = 12
       /\ pc = "roundtrip" => result.ok /\ result.val = obj

\* The values C3 speaks of: nil, booleans, i64 integers, strings, binary,
\* and lists and dicts of them, with no 2-element list whose first element
\* is a 2-byte string.
RECURSIVE InContainerDomain(_)
InContainerDomain(v) ==
    CASE v.kind \in {"none", "bool", "str", "bytes"} -> TRUE
      [] v.kind = "int" -> FitsI64(v)
      [] v.kind = "list" ->
            /\ ~(Len(v.items) = 2 /\ v.items[1].kind = "str" /\ Len(v.items[1].bytes) = 2)
            /\ \A i \in 1..Len(v.items) : InContainerDomain(v.items[i])
      [] v.kind = "dict" ->
            \A i \in 1..Len(v.pairs) :
                InContainerDomain(v.pairs[i][1]) /\ InContainerDomain(v.pairs[i][2])
      [] OTHER -> FALSE

\* C3: decode(encode(v)) is a value of the same kind and structure, equal
\* to v, for every v built from nil, booleans, i64 integers, strings, binary
\* and lists and maps of them.
C3_ContainerRoundTrip ==
    (pc = "roundtrip" /\ InContainerDomain(obj)) => (result.ok /\ result.val = obj)

\* the settings as encode writes them: each key as a string, then its value
RECURSIVE SettingsBytes(_)
SettingsBytes(settings) ==
    IF Len(settings) = 0 THEN <<>>
    ELSE <<160 + Len(Head(settings)[1])>> \o Head(settings)[1]
            \o encode_py(Head(settings)[2]).buf \o SettingsBytes(Tail(settings))

\* C4 as stated: a ModDescriptor with n settings is written as an array
\* header of length 2, the acronym string, an array header of declared
\* length 2 * n, and the n key / value pairs.
C4_SettingsHeaderTwiceN ==
    (pc = "encoded" /\ obj.kind = "apimod" /\ ~encoded.panic)
    => encoded.buf = <<146, 160 + Len(obj.acronym)>> \o obj.acronym
                        \o <<144 + 2 * Len(obj.settings)>> \o SettingsBytes(obj.settings)

\* C4 amended: the second array header declares n, the number of settings
\* (of key / value pairs), and the 2 * n strings and values follow it.
C4_SettingsHeaderN ==
    (pc = "encoded" /\ obj.kind = "apimod" /\ ~encoded.panic)
    => encoded.buf = <<146, 160 + Len(obj.acronym)>> \o obj.acronym
                        \o <<144 + Len(obj.settings)>> \o SettingsBytes(obj.settings)

C4_Witness ==
    /\ pc = "encoded"
    /\ obj.kind = "apimod"
    /\ Len(obj.settings) = 2
    /\ ~encoded.panic
    /\ encoded.buf[5] = 146

\* -32 <= v <= 127
InFixintRange(v) == SLe(SmallInt(-32).v, v) /\ SLe(v, SmallInt(127).v)

\* C5 as stated: an integer in the fixint range is written as one byte
\* holding the value: 42 as 0x2A, -1 as 0xFF.
C5_FixintOneByte ==
    (pc = "encoded" /\ obj.kind = "int" /\ InFixintRange(obj.v))
    => (~encoded.panic /\ encoded.buf = <<obj.v[9]>>)

\* C5 amended: an integer in the fixint range is written as five bytes, the
\* int32 marker 0xD2 and the value in 4 big-endian bytes: 42 as
\* D2 00 00 00 2A, -1 as D2 FF FF FF FF.
C5_FixintFiveBytes ==
    (pc = "encoded" /\ obj.kind = "int" /\ InFixintRange(obj.v))
    => /\ ~encoded.panic
       /\ Len(encoded.buf) = 5
       /\ encoded.buf[1] = 210
       /\ encoded.buf[5] = obj.v[9]
       /\ obj = SmallInt(42) => encoded.buf = <<210, 0, 0, 0, 42>>
       /\ obj = SmallInt(-1) => encoded.buf = <<210, 255, 255, 255, 255>>

C5_Witness == pc = "encoded" /\ obj = SmallInt(-1) /\ Len(encoded.buf) = 5

\* C6: encode returns the bytes or an error for every input; no panic
\* unwinds past encode.
C6_EncodeNeverUnwinds == pc = "encoded" => ~encoded.panic

\* C7: decoding a timestamp extension whose seconds and nanoseconds are no
\* representable instant (nanoseconds 2 * 10^9, or second i64::MAX) fails.
C7_UnrepresentableFails ==
    (pc = "decoded" /\ data \in {TsBuf(TS_NSEC_2E9), TsBuf(TS_SECS_MAX)}) => ~result.ok

\* the call before decoded one value and consumed its whole buffer
WasComplete == prevResult.ok /\ prevResult.cur.pos = Len(prevData)

\* C8 as stated: a complete encoding without its last byte fails to decode
\* with the I/O error (TruncatedInput), whatever the missing byte is.
C8_TruncationIsIOError ==
    (pc = "truncated" /\ WasComplete) => (~result.ok /\ result.exc = "PyIOError")

\* C8 amended: a complete encoding without its last byte fails to decode:
\* with the I/O error when the missing byte is a payload or length byte,
\* and with the ValueError of a failed marker read when it is a marker.
C8_TruncationFails ==
    (pc = "truncated" /\ WasComplete)
    => /\ ~result.ok
       /\ prevResult.cur.last \in {"exact", "marker"}
       /\ prevResult.cur.last = "exact" => result.exc = "PyIOError"
       /\ prevResult.cur.last = "marker" =>
            result.exc = "PyValueError" /\ result.msg = "Failed to read marker"

C8_Witness ==
    /\ pc = "truncated"
    /\ WasComplete
    /\ prevResult.val.kind = "list"
    /\ prevResult.cur.last = "marker"
    /\ result.exc = "PyValueError"

\* C9: when decode succeeds on a buffer, it succeeds with the same value,
\* having read the same bytes, on the buffer followed by any bytes.
C9_TrailingIgnored == (pc = "extended" /\ prevResult.ok) => result = prevResult

C9_Witness ==
    /\ pc = "extended"
    /\ prevResult.ok
    /\ prevResult.val.kind = "list"
    /\ Len(prevResult.val.items) = 2
    /\ result.cur.pos < Len(data)

\* the first n elements at the cursor, each decoded with pair mode off
RECURSIVE PlainElements(_, _, _)
PlainElements(d, cursor, n) ==
    IF n = 0 THEN <<>>
    ELSE LET r == read_object(d, cursor, FALSE)
         IN  IF r.ok THEN <<r.val>> \o PlainElements(d, r.cur, n - 1) ELSE <<>>

\* the buffer starts with the header of an array of declared length 2
StartsArrayOfTwo(d) ==
    /\ Len(d) > 0
    /\ \/ d[1] = 146
       \/ d[1] = 220 /\ Len(d) >= 3 /\ SubSeq(d, 2, 3) = <<0, 2>>
       \/ d[1] = 221 /\ Len(d) >= 5 /\ SubSeq(d, 2, 5) = <<0, 0, 0, 2>>

\* C10: read_array returns a mod descriptor exactly when the declared
\* length is 2, pair mode is off and the first element is a string of 2
\* bytes, and then its settings are the second element decoded in pair
\* mode.  Otherwise, with pair mode off it returns the list of the elements
\* decoded in order (the first element item 0), with pair mode on a dict;
\* and decode returns a mod descriptor only for an array of declared
\* length 2.
C10_ModDetection ==
    /\ (pc = "array" /\ result.ok) =>
        LET first == read_object(data, NewCursor, FALSE)
            qualifies ==
                /\ args.len = 2
                /\ ~args.api_mod
                /\ first.ok
                /\ first.val.kind = "str"
                /\ Len(first.val.bytes) = 2
            second == read_object(data, first.cur, TRUE)
        IN  /\ (result.via = "mod") = qualifies
            /\ IsModDescriptor(result.val) => (qualifies \/ args.api_mod)
            /\ qualifies =>
                /\ result.val = PyDict(<< <<KEY_ACRONYM, first.val>>,
                                          <<KEY_SETTINGS, second.val>> >>)
                /\ Marker(data[first.cur.pos + 1]).name = "FixArray" =>
                        second.val.kind = "dict"
            /\ (~qualifies /\ ~args.api_mod) =>
                result.val = PyList(PlainElements(data, NewCursor, args.len))
            /\ args.api_mod => (result.val.kind = "dict" /\ result.via = "pairs")
    /\ (pc \in {"decoded", "roundtrip", "truncated", "extended"} /\ result.ok) =>
        /\ result.via = "mod" => StartsArrayOfTwo(data)
        /\ result.val.kind = "str" => result.via # "mod"

C10_Witness ==
    /\ pc = "array"
    /\ result.ok
    /\ result.via = "mod"
    /\ result.val.pairs[2][2].kind = "dict"
    /\ Len(result.val.pairs[2][2].pairs) = 1

=============================================================================
